---- MODULE Spec2Model ----
(***************************************************************************)
(* Groupie-tracker: the startup pipeline (init -> gatherData: one root     *)
(* fetch, four concurrent fetches joined by a WaitGroup, the positional    *)
(* join into artistData) followed by the request handlers that read        *)
(* artistData.                                                             *)
(*                                                                         *)
(* Strings whose characters the program inspects (the id parameter, the    *)
(* search query, the searchable fields) are sequences of one-character     *)
(* strings; strings that are only stored or compared are TLA+ strings.     *)
(* An error value is the pair <<"FetchFailed", url>>; the nil error is Nil.*)
(***************************************************************************)
EXTENDS Integers, Sequences, FiniteSets, TLC

\* Longest collection the remote API serves in the model.
MaxLen == 3

Nil == <<"nil", "">>

RootURL == "https://groupietrackers.herokuapp.com/api"

\* The four sub-resources in the fixed order artists, locations, dates, relation.
Sources == <<"artists", "locations", "dates", "relation">>

SourceSet == {Sources[i] : i \in 1..Len(Sources)}

\* Zero value of the Data struct and the manifest the root document decodes to.
ZeroData == [Artists |-> "", Locations |-> "", Dates |-> "", Relation |-> ""]

Manifest ==
  [Artists |-> "api/artists", Locations |-> "api/locations",
   Dates |-> "api/dates", Relation |-> "api/relation"]

\* Faulty variant: the dates goroutine fetches the relation URL.
URLOfCopyPaste(d, s) ==
  CASE s = "artists" -> d.Artists
    [] s = "locations" -> d.Locations
    [] s = "dates" -> d.Relation
    [] s = "relation" -> d.Relation

\* The URL the goroutine of source s fetches.
URLOf(d, s) ==
  CASE s = "artists" -> d.Artists
    [] s = "locations" -> d.Locations
    [] s = "dates" -> d.Dates
    [] s = "relation" -> d.Relation

SeqsUpTo(S, n) == UNION {[1..k -> S] : k \in 0..n}

\* The collections tried: every sequence over S of length at most n whose
\* neighbouring elements differ, so that positions can be told apart.
Collections(S, n) ==
  {q \in SeqsUpTo(S, n) : \A i \in 1..(Len(q) - 1) : q[i] # q[i + 1]}

(***************************************************************************)
(* What the remote API may serve: elements of the four JSON collections.   *)
(***************************************************************************)
ArtistPool ==
  { [ID |-> 1, Image |-> "queen.jpeg", Name |-> <<"Q", "u">>,
     Members |-> << <<"M", "a", "y">>, <<"q">> >>,
     CreationDate |-> 19, FirstAlbum |-> <<"1", "-", "7">>],
    [ID |-> 2, Image |-> "acdc.jpeg", Name |-> <<"a", "c">>,
     Members |-> << <<"A", "y">> >>,
     CreationDate |-> 7, FirstAlbum |-> <<"2", "-", "9">>] }

LocationPool ==
  { [ID |-> 1, Locations |-> << <<"u", "s", "a">>, <<"Q", "c">> >>, Dates |-> "api/dates/1"],
    [ID |-> 2, Locations |-> << <<"m", "a">> >>, Dates |-> "api/dates/2"] }

DatePool ==
  { [ID |-> 1, Dates |-> <<"*23-08-2019", "22-08-2019">>],
    [ID |-> 2, Dates |-> <<"*05-12-2019">>] }

RelationPool ==
  { [ID |-> 1, DatesLocations |-> [l \in {"usa"} |-> <<"23-08-2019">>]],
    [ID |-> 2, DatesLocations |-> [l \in {"ma", "qc"} |-> <<"05-12-2019">>]] }

\* The documents a successful GET of url may decode to.
Payloads(url) ==
  CASE url = RootURL -> {Manifest}
    [] url = Manifest.Artists -> Collections(ArtistPool, MaxLen)
    [] url = Manifest.Locations -> {[Index |-> q] : q \in Collections(LocationPool, MaxLen)}
    [] url = Manifest.Dates -> {[Index |-> q] : q \in Collections(DatePool, MaxLen)}
    [] url = Manifest.Relation -> {[Index |-> q] : q \in Collections(RelationPool, MaxLen)}
    [] OTHER -> {}

\* fetchData: either an error (http.Get or Decode failed; the target is then
\* not used by any caller) or nil with the decoded document for the target.
fetchData(url) ==
  {[err |-> <<"FetchFailed", url>>, val |-> <<>>]}
    \cup {[err |-> Nil, val |-> p] : p \in Payloads(url)}

VARIABLES
  mainpc,      \* position of the main goroutine (init, gatherData, main)
  data,        \* gatherData: data Data
  rootErr,     \* gatherData: err of the root fetch's if statement
  artists,     \* gatherData: artists []Artist
  locations,   \* gatherData: locations Locations
  dates,       \* gatherData: dates Dates
  relation,    \* gatherData: relation Relation
  wg,          \* gatherData: counter of the sync.WaitGroup
  errs,        \* gatherData: errs []error
  fpc,         \* position of each of the four fetch goroutines
  ferr,        \* err of each goroutine's if statement
  snap,        \* the value of errs each goroutine's append has read
  x,           \* gatherData: loop variable of the join
  ret,         \* the error gatherData returned
  artistData,  \* global artistData
  templates,   \* global templates (parsed or not)
  resp         \* the last response a handler wrote

vars ==
  <<mainpc, data, rootErr, artists, locations, dates, relation, wg, errs,
    fpc, ferr, snap, x, ret, artistData, templates, resp>>

gatherVars ==
  <<data, rootErr, artists, locations, dates, relation, wg, errs, fpc, ferr, snap, x>>

NoResp ==
  [handler |-> "none", method |-> "", arg |-> <<>>, status |-> 0,
   tmpl |-> "", data |-> <<>>, body |-> ""]

Init ==
  /\ mainpc = "init"
  /\ data = ZeroData
  /\ rootErr = Nil
  /\ artists = <<>>
  /\ locations = [Index |-> <<>>]
  /\ dates = [Index |-> <<>>]
  /\ relation = [Index |-> <<>>]
  /\ wg = 0
  /\ errs = <<>>
  /\ fpc = [s \in SourceSet |-> "idle"]
  /\ ferr = [s \in SourceSet |-> Nil]
  /\ snap = [s \in SourceSet |-> <<>>]
  /\ x = 0
  /\ ret = Nil
  /\ artistData = <<>>
  /\ templates = FALSE
  /\ resp = NoResp

(***************************************************************************)
(* gatherData                                                              *)
(***************************************************************************)

\* init calls gatherData, whose first statement fetches the root document.
GatherFetchRoot ==
  /\ mainpc = "init"
  /\ \E o \in fetchData(RootURL) :
       /\ rootErr' = o.err
       /\ data' = IF o.err = Nil THEN o.val ELSE data
  /\ mainpc' = "root_fetched"
  /\ UNCHANGED <<artists, locations, dates, relation, wg, errs, fpc, ferr, snap,
                 x, ret, artistData, templates, resp>>

\* Faulty variant: the root error is ignored.
RootFailedIgnored == FALSE

\* if err != nil { return err }
RootFailed == rootErr # Nil

GatherRootReturn ==
  /\ mainpc = "root_fetched"
  /\ RootFailed
  /\ ret' = rootErr
  /\ mainpc' = "gather_ret"
  /\ UNCHANGED <<gatherVars, artistData, templates, resp>>

\* wg.Add(4) and the four go statements.
GatherLaunch ==
  /\ mainpc = "root_fetched"
  /\ ~RootFailed
  /\ wg' = wg + 4
  /\ fpc' = [s \in SourceSet |-> "fetch"]
  /\ mainpc' = "wait"
  /\ UNCHANGED <<data, rootErr, artists, locations, dates, relation, errs, ferr,
                 snap, x, ret, artistData, templates, resp>>

\* The position a goroutine moves to after its fetchData call, and the
\* WaitGroup counter after it: a successful goroutine falls through to the
\* deferred wg.Done(), a failed one enters errs = append(errs, err).
AfterFetch(s, e) == [fpc EXCEPT ![s] = IF e = Nil THEN "done" ELSE "append"]

WgAfterFetch(e) == IF e = Nil THEN wg - 1 ELSE wg

GoArtists ==
  /\ fpc["artists"] = "fetch"
  /\ \E o \in fetchData(URLOf(data, "artists")) :
       /\ artists' = IF o.err = Nil THEN o.val ELSE artists
       /\ ferr' = [ferr EXCEPT !["artists"] = o.err]
       /\ fpc' = AfterFetch("artists", o.err)
       /\ wg' = WgAfterFetch(o.err)
  /\ UNCHANGED <<mainpc, data, rootErr, locations, dates, relation, errs, snap,
                 x, ret, artistData, templates, resp>>

GoLocations ==
  /\ fpc["locations"] = "fetch"
  /\ \E o \in fetchData(URLOf(data, "locations")) :
       /\ locations' = IF o.err = Nil THEN o.val ELSE locations
       /\ ferr' = [ferr EXCEPT !["locations"] = o.err]
       /\ fpc' = AfterFetch("locations", o.err)
       /\ wg' = WgAfterFetch(o.err)
  /\ UNCHANGED <<mainpc, data, rootErr, artists, dates, relation, errs, snap,
                 x, ret, artistData, templates, resp>>

GoRelation ==
  /\ fpc["relation"] = "fetch"
  /\ \E o \in fetchData(URLOf(data, "relation")) :
       /\ relation' = IF o.err = Nil THEN o.val ELSE relation
       /\ ferr' = [ferr EXCEPT !["relation"] = o.err]
       /\ fpc' = AfterFetch("relation", o.err)
       /\ wg' = WgAfterFetch(o.err)
  /\ UNCHANGED <<mainpc, data, rootErr, artists, locations, dates, errs, snap,
                 x, ret, artistData, templates, resp>>

GoDates ==
  /\ fpc["dates"] = "fetch"
  /\ \E o \in fetchData(URLOf(data, "dates")) :
       /\ dates' = IF o.err = Nil THEN o.val ELSE dates
       /\ ferr' = [ferr EXCEPT !["dates"] = o.err]
       /\ fpc' = AfterFetch("dates", o.err)
       /\ wg' = WgAfterFetch(o.err)
  /\ UNCHANGED <<mainpc, data, rootErr, artists, locations, relation, errs, snap,
                 x, ret, artistData, templates, resp>>

\* errs = append(errs, err), unsynchronised: the goroutine first reads the
\* slice header of errs ...
AppendRead(s) ==
  /\ fpc[s] = "append"
  /\ snap' = [snap EXCEPT ![s] = errs]
  /\ fpc' = [fpc EXCEPT ![s] = "store"]
  /\ UNCHANGED <<mainpc, data, rootErr, artists, locations, dates, relation, wg,
                 errs, ferr, x, ret, artistData, templates, resp>>

\* ... and later stores the header of the slice it read with its error
\* appended; the deferred wg.Done() follows.
AppendStore(s) ==
  /\ fpc[s] = "store"
  /\ errs' = Append(snap[s], ferr[s])
  /\ wg' = wg - 1
  /\ fpc' = [fpc EXCEPT ![s] = "done"]
  /\ UNCHANGED <<mainpc, data, rootErr, artists, locations, dates, relation,
                 ferr, snap, x, ret, artistData, templates, resp>>

\* Faulty variant: the barrier opens while one goroutine is still counted.
WaitReturnsEarly == wg <= 1

\* wg.Wait() returns when the counter is zero.
WaitReturns == wg = 0

GatherWait ==
  /\ mainpc = "wait"
  /\ WaitReturns
  /\ mainpc' = "check"
  /\ UNCHANGED <<gatherVars, ret, artistData, templates, resp>>

\* Faulty variant: a single recorded error goes unnoticed.
ErrsOccurredOffByOne == Len(errs) > 1

\* len(errs) > 0
ErrsOccurred == Len(errs) > 0

\* if len(errs) > 0 { return errs[0] }
GatherCheckErrs ==
  /\ mainpc = "check"
  /\ IF ErrsOccurred
       THEN /\ ret' = errs[1]
            /\ mainpc' = "gather_ret"
            /\ x' = x
       ELSE /\ x' = 0
            /\ mainpc' = "join"
            /\ ret' = ret
  /\ UNCHANGED <<data, rootErr, artists, locations, dates, relation, wg, errs,
                 fpc, ferr, snap, artistData, templates, resp>>

\* Faulty variant: the dates are always those of the first element.
JoinRecordFirstDates(i) ==
  [Id |-> artists[i].ID,
   Name |-> artists[i].Name,
   Image |-> artists[i].Image,
   Members |-> artists[i].Members,
   CreationDate |-> artists[i].CreationDate,
   FirstAlbum |-> artists[i].FirstAlbum,
   Locations |-> locations.Index[i].Locations,
   Dates |-> dates.Index[1].Dates,
   Relation |-> relation.Index[i].DatesLocations]

\* Faulty variant: the record's id is its position, not the declared ID.
JoinRecordPositionalId(i) ==
  [Id |-> i,
   Name |-> artists[i].Name,
   Image |-> artists[i].Image,
   Members |-> artists[i].Members,
   CreationDate |-> artists[i].CreationDate,
   FirstAlbum |-> artists[i].FirstAlbum,
   Locations |-> locations.Index[i].Locations,
   Dates |-> dates.Index[i].Dates,
   Relation |-> relation.Index[i].DatesLocations]

\* The map literal of one loop iteration; i is the 1-based position x+1.
JoinRecord(i) ==
  [Id |-> artists[i].ID,
   Name |-> artists[i].Name,
   Image |-> artists[i].Image,
   Members |-> artists[i].Members,
   CreationDate |-> artists[i].CreationDate,
   FirstAlbum |-> artists[i].FirstAlbum,
   Locations |-> locations.Index[i].Locations,
   Dates |-> dates.Index[i].Dates,
   Relation |-> relation.Index[i].DatesLocations]

\* An index expression of the literal is out of range: the runtime panics.
JoinPanics(i) ==
  \/ i > Len(locations.Index)
  \/ i > Len(dates.Index)
  \/ i > Len(relation.Index)

\* for x := 0; x < len(artists); x++ { artistData = append(artistData, ...) }
GatherJoinStep ==
  /\ mainpc = "join"
  /\ x < Len(artists)
  /\ IF JoinPanics(x + 1)
       THEN /\ mainpc' = "panicked"
            /\ UNCHANGED <<x, artistData>>
       ELSE /\ artistData' = Append(artistData, JoinRecord(x + 1))
            /\ x' = x + 1
            /\ mainpc' = mainpc
  /\ UNCHANGED <<data, rootErr, artists, locations, dates, relation, wg, errs,
                 fpc, ferr, snap, ret, templates, resp>>

\* return nil
GatherJoinReturn ==
  /\ mainpc = "join"
  /\ x >= Len(artists)
  /\ ret' = Nil
  /\ mainpc' = "gather_ret"
  /\ UNCHANGED <<gatherVars, artistData, templates, resp>>

(***************************************************************************)
(* init and main                                                           *)
(***************************************************************************)

\* if err := gatherData(); err != nil { log.Fatalf(...) }
InitFatal == ret # Nil

\* init after gatherData has returned: log.Fatalf ends the process, otherwise
\* the templates are parsed (ParseGlob may fail, which is fatal too). The
\* locals of gatherData and of its goroutines end with the call.
InitAfterGather ==
  /\ mainpc = "gather_ret"
  /\ IF InitFatal
       THEN /\ mainpc' = "exited"
            /\ templates' = templates
       ELSE \E parsed \in BOOLEAN :
              /\ templates' = parsed
              /\ mainpc' = IF parsed THEN "main" ELSE "exited"
  /\ data' = ZeroData
  /\ rootErr' = Nil
  /\ artists' = <<>>
  /\ locations' = [Index |-> <<>>]
  /\ dates' = [Index |-> <<>>]
  /\ relation' = [Index |-> <<>>]
  /\ errs' = <<>>
  /\ ferr' = [s \in SourceSet |-> Nil]
  /\ snap' = [s \in SourceSet |-> <<>>]
  /\ x' = 0
  /\ UNCHANGED <<wg, fpc, ret, artistData, resp>>

\* main: the routes are registered and http.ListenAndServe either serves or
\* returns an error at once (log.Fatal).
MainListen ==
  /\ mainpc = "main"
  /\ \E listening \in BOOLEAN :
       mainpc' = IF listening THEN "serving" ELSE "exited"
  /\ UNCHANGED <<gatherVars, ret, artistData, templates, resp>>

(***************************************************************************)
(* Requests. A path is the sequence of its segments: "/" is <<>>.          *)
(***************************************************************************)
Methods == {"GET", "POST"}

Paths ==
  {<<>>, <<"Artist">>, <<"about">>, <<"search">>, <<"nope">>, <<"artist">>,
   <<"assets", "style.css">>}

\* The patterns registered in main, matched as http.ServeMux matches them.
Route(path) ==
  CASE path = <<"Artist">> -> "singleArtistHandler"
    [] path = <<"about">> -> "aboutHandler"
    [] path = <<"search">> -> "searchHandler"
    [] Len(path) >= 2 /\ path[1] = "assets" -> "assets"
    [] OTHER -> "indexHandler"

\* http.Error(w, msg, code)
HttpError(h, m, a, code, msg) ==
  [handler |-> h, method |-> m, arg |-> a, status |-> code, tmpl |-> "",
   data |-> <<>>, body |-> msg]

\* templates.ExecuteTemplate(w, name, d) and the 500 written when it fails;
\* d is recorded as the sequence of records handed to the template.
Render(h, m, a, name, d, ok) ==
  [handler |-> h, method |-> m, arg |-> a,
   status |-> IF ok THEN 200 ELSE 500,
   tmpl |-> name, data |-> d,
   body |-> IF ok THEN "" ELSE "500 ! template error"]

indexHandler(m, path, ok) ==
  IF m # "GET"
    THEN HttpError("indexHandler", m, path, 405, "405 ! Method not allowed")
    ELSE IF path # <<>>
      THEN Render("indexHandler", m, path, "404.html", <<>>, ok)
      ELSE Render("indexHandler", m, path, "index.html", artistData, ok)

ServeIndex ==
  /\ mainpc = "serving"
  /\ \E m \in Methods, path \in Paths, ok \in BOOLEAN :
       /\ Route(path) = "indexHandler"
       /\ resp' = indexHandler(m, path, ok)
  /\ UNCHANGED <<mainpc, gatherVars, ret, artistData, templates>>

(***************************************************************************)
(* strconv.Atoi and strconv.Itoa on sequences of characters.               *)
(***************************************************************************)
Digits == <<"0", "1", "2", "3", "4", "5", "6", "7", "8", "9">>

IsDigit(c) == \E d \in 1..10 : Digits[d] = c

DigitVal(c) == (CHOOSE d \in 1..10 : Digits[d] = c) - 1

RECURSIVE DecimalVal(_)
DecimalVal(s) ==
  IF s = <<>> THEN 0
  ELSE 10 * DecimalVal(SubSeq(s, 1, Len(s) - 1)) + DigitVal(s[Len(s)])

\* Atoi: an optional sign followed by one or more decimal digits.
Atoi(s) ==
  LET signed == s # <<>> /\ s[1] \in {"+", "-"}
      body == IF signed THEN Tail(s) ELSE s
  IN IF body = <<>> \/ \E i \in 1..Len(body) : ~IsDigit(body[i])
       THEN [n |-> 0, err |-> TRUE]
       ELSE [n |-> IF signed /\ s[1] = "-" THEN 0 - DecimalVal(body)
                   ELSE DecimalVal(body),
             err |-> FALSE]

RECURSIVE NatItoa(_)
NatItoa(n) ==
  IF n < 10 THEN <<Digits[n + 1]>>
  ELSE NatItoa(n \div 10) \o <<Digits[(n % 10) + 1]>>

Itoa(n) == IF n < 0 THEN <<"-">> \o NatItoa(0 - n) ELSE NatItoa(n)

\* The values of the id query parameter tried ("" when it is absent).
IdStrings ==
  {<<>>, <<"0">>, <<"1">>, <<"2">>, <<"3">>, <<"4">>, <<"-", "1">>, <<"+", "1">>,
   <<"0", "2">>, <<"1", "0">>, <<"a">>, <<"1", "a">>, <<"1", ".", "0">>, <<"-">>}

\* Faulty variant: the last record is rejected.
InvalidIDOffByOne(a) == a.err \/ a.n < 1 \/ a.n >= Len(artistData)

\* err != nil || artistID < 1 || artistID > len(artistData)
InvalidID(a) == a.err \/ a.n < 1 \/ a.n > Len(artistData)

singleArtistHandler(m, id, ok) ==
  IF m # "GET"
    THEN HttpError("singleArtistHandler", m, id, 405, "405 ! Method not allowed")
    ELSE IF InvalidID(Atoi(id))
      THEN HttpError("singleArtistHandler", m, id, 400, "400 ! Invalid Artist ID")
      ELSE Render("singleArtistHandler", m, id, "artist.html",
                  <<artistData[Atoi(id).n]>>, ok)

ServeArtist ==
  /\ mainpc = "serving"
  /\ \E m \in Methods, id \in IdStrings, ok \in BOOLEAN :
       resp' = singleArtistHandler(m, id, ok)
  /\ UNCHANGED <<mainpc, gatherVars, ret, artistData, templates>>

aboutHandler(m, ok) ==
  IF m # "GET"
    THEN HttpError("aboutHandler", m, <<>>, 405, "405 ! Method not allowed")
    ELSE Render("aboutHandler", m, <<>>, "about.html", <<>>, ok)

ServeAbout ==
  /\ mainpc = "serving"
  /\ \E m \in Methods, ok \in BOOLEAN : resp' = aboutHandler(m, ok)
  /\ UNCHANGED <<mainpc, gatherVars, ret, artistData, templates>>

\* http.FileServer under /assets/: the file is served or it does not exist.
ServeAssets ==
  /\ mainpc = "serving"
  /\ \E m \in Methods, path \in Paths, found \in BOOLEAN :
       /\ Route(path) = "assets"
       /\ resp' = [handler |-> "assets", method |-> m, arg |-> path,
                   status |-> IF found THEN 200 ELSE 404,
                   tmpl |-> "", data |-> <<>>, body |-> ""]
  /\ UNCHANGED <<mainpc, gatherVars, ret, artistData, templates>>

(***************************************************************************)
(* searchHandler                                                           *)
(***************************************************************************)
UpperLetters ==
  <<"A", "B", "C", "D", "E", "F", "G", "H", "I", "J", "K", "L", "M",
    "N", "O", "P", "Q", "R", "S", "T", "U", "V", "W", "X", "Y", "Z">>

LowerLetters ==
  <<"a", "b", "c", "d", "e", "f", "g", "h", "i", "j", "k", "l", "m",
    "n", "o", "p", "q", "r", "s", "t", "u", "v", "w", "x", "y", "z">>

LowerChar(c) ==
  IF \E i \in 1..26 : UpperLetters[i] = c
    THEN LowerLetters[CHOOSE i \in 1..26 : UpperLetters[i] = c]
    ELSE c

\* strings.ToLower
ToLower(s) == [i \in 1..Len(s) |-> LowerChar(s[i])]

\* Faulty variant: the empty substring is contained in nothing.
ContainsNonEmpty(s, sub) ==
  \E i \in 0..(Len(s) - Len(sub)) :
    sub # <<>> /\ SubSeq(s, i + 1, i + Len(sub)) = sub

\* strings.Contains
Contains(s, sub) ==
  \E i \in 0..(Len(s) - Len(sub)) : SubSeq(s, i + 1, i + Len(sub)) = sub

\* Faulty variant: the hit carries the lowercased value that was matched.
SearchResultLowered(type, value, id) ==
  [Type |-> type, Value |-> ToLower(value), ID |-> id]

SearchResult(type, value, id) == [Type |-> type, Value |-> value, ID |-> id]

\* One of the two inner loops: a hit for each element whose lowercased value
\* contains the query, in element order.
RECURSIVE HitsIn(_, _, _, _)
HitsIn(values, type, id, query) ==
  IF values = <<>> THEN <<>>
  ELSE (IF Contains(ToLower(Head(values)), query)
          THEN <<SearchResult(type, Head(values), id)>>
          ELSE <<>>)
       \o HitsIn(Tail(values), type, id, query)

\* Faulty variant: the locations are searched before the members.
ArtistHitsLocationsFirst(artist, query) ==
  (IF Contains(ToLower(artist.Name), query)
     THEN <<SearchResult("artist", artist.Name, artist.Id)>> ELSE <<>>)
  \o HitsIn(artist.Locations, "location", artist.Id, query)
  \o HitsIn(artist.Members, "member", artist.Id, query)
  \o (IF Contains(ToLower(artist.FirstAlbum), query)
        THEN <<SearchResult("first album", artist.FirstAlbum, artist.Id)>> ELSE <<>>)
  \o (IF Contains(Itoa(artist.CreationDate), query)
        THEN <<SearchResult("creation date", Itoa(artist.CreationDate), artist.Id)>>
        ELSE <<>>)

\* The body of the loop over artistData for one record.
ArtistHits(artist, query) ==
  (IF Contains(ToLower(artist.Name), query)
     THEN <<SearchResult("artist", artist.Name, artist.Id)>> ELSE <<>>)
  \o HitsIn(artist.Members, "member", artist.Id, query)
  \o HitsIn(artist.Locations, "location", artist.Id, query)
  \o (IF Contains(ToLower(artist.FirstAlbum), query)
        THEN <<SearchResult("first album", artist.FirstAlbum, artist.Id)>> ELSE <<>>)
  \o (IF Contains(Itoa(artist.CreationDate), query)
        THEN <<SearchResult("creation date", Itoa(artist.CreationDate), artist.Id)>>
        ELSE <<>>)

RECURSIVE SearchResults(_, _)
SearchResults(store, query) ==
  IF store = <<>> THEN <<>>
  ELSE ArtistHits(Head(store), query) \o SearchResults(Tail(store), query)

\* The values of the q query parameter tried ("" when it is absent).
Queries ==
  {<<>>, <<"q">>, <<"Q">>, <<"a", "y">>, <<"A", "Y">>, <<"1">>, <<"7">>,
   <<"-">>, <<"u", "s">>, <<"z">>}

\* Faulty variant: the query is matched as typed.
searchHandlerCaseSensitive(m, q) ==
  [handler |-> "searchHandler", method |-> m, arg |-> q, status |-> 200,
   tmpl |-> "", data |-> SearchResults(artistData, q),
   body |-> "application/json"]

\* searchHandler does not look at the request method.
searchHandler(m, q) ==
  [handler |-> "searchHandler", method |-> m, arg |-> q, status |-> 200,
   tmpl |-> "", data |-> SearchResults(artistData, ToLower(q)),
   body |-> "application/json"]

\* Faulty variant: the handler lowercases the names in the store in place.
ServeSearchNormalising ==
  /\ mainpc = "serving"
  /\ \E m \in Methods, q \in Queries : resp' = searchHandler(m, q)
  /\ artistData' =
       [i \in 1..Len(artistData) |->
          [artistData[i] EXCEPT !.Name = ToLower(artistData[i].Name)]]
  /\ UNCHANGED <<mainpc, gatherVars, ret, templates>>

ServeSearch ==
  /\ mainpc = "serving"
  /\ \E m \in Methods, q \in Queries : resp' = searchHandler(m, q)
  /\ UNCHANGED <<mainpc, gatherVars, ret, artistData, templates>>

Next ==
  \/ GatherFetchRoot
  \/ GatherRootReturn
  \/ GatherLaunch
  \/ GoArtists
  \/ GoLocations
  \/ GoRelation
  \/ GoDates
  \/ \E s \in SourceSet : AppendRead(s)
  \/ \E s \in SourceSet : AppendStore(s)
  \/ GatherWait
  \/ GatherCheckErrs
  \/ GatherJoinStep
  \/ GatherJoinReturn
  \/ InitAfterGather
  \/ MainListen
  \/ ServeIndex
  \/ ServeArtist
  \/ ServeAbout
  \/ ServeAssets
  \/ ServeSearch

Spec == Init /\ [][Next]_vars

\* The steps of the main goroutine that wait for nothing outside the process.
MainStep ==
  \/ GatherRootReturn
  \/ GatherLaunch
  \/ GatherWait
  \/ GatherCheckErrs
  \/ GatherJoinStep
  \/ GatherJoinReturn
  \/ InitAfterGather
  \/ MainListen

\* The Go scheduler runs every runnable goroutine: the main goroutine and a
\* fetch goroutine whose fetchData has returned keep taking their steps. A
\* fetchData call itself has no timeout and need never return, and requests
\* arrive as the clients send them, so neither is fair.
FairSpec ==
  /\ Spec
  /\ WF_vars(MainStep)
  /\ \A s \in SourceSet : WF_vars(AppendRead(s) \/ AppendStore(s))

(***************************************************************************)
(* Properties                                                              *)
(***************************************************************************)
FailedSources == {s \in SourceSet : ferr[s] # Nil}

RootError == <<"FetchFailed", RootURL>>

Launched == \E s \in SourceSet : fpc[s] # "idle"

AllDone == \A s \in SourceSet : fpc[s] = "done"

\* All four fetches succeeded and the barrier has been passed.
AllFetched == AllDone /\ FailedSources = {} /\ mainpc \in {"check", "join", "gather_ret", "panicked"}

Lengths == {Len(artists), Len(locations.Index), Len(dates.Index), Len(relation.Index)}

\* C1: whenever one of the four fetches has failed, the store is empty, the
\* join is never entered, and gatherData returns an error; a process whose
\* gatherData returned an error has an empty store.
C1_FailedFetchLeavesStoreEmpty ==
  /\ FailedSources # {} =>
       /\ artistData = <<>>
       /\ mainpc \notin {"join", "panicked"}
       /\ (mainpc = "gather_ret" => ret # Nil)
  /\ ret # Nil => artistData = <<>>

C1_Witness ==
  /\ mainpc = "gather_ret"
  /\ ferr["locations"] # Nil
  /\ ferr["artists"] = Nil
  /\ Len(artists) >= 2

\* The first failed source in the order artists, locations, dates, relation.
FirstFailed ==
  Sources[CHOOSE i \in 1..Len(Sources) :
            /\ Sources[i] \in FailedSources
            /\ \A j \in 1..(i - 1) : Sources[j] \notin FailedSources]

\* C2: when some fetch failed, the error gatherData returns is the error of
\* the first failed source in the order artists, locations, dates, relation.
C2_ErrorInFixedOrder ==
  (mainpc = "gather_ret" /\ FailedSources # {}) => ret = ferr[FirstFailed]

\* C3: no two goroutines are between the read and the store of their append
\* to errs at the same time, and after the barrier errs holds one entry per
\* failed fetch.
C3_ErrsAccessExclusive ==
  /\ \A s, t \in SourceSet : (s # t /\ fpc[s] = "store") => fpc[t] # "store"
  /\ mainpc = "check" => Len(errs) = Cardinality(FailedSources)

\* C4: once the goroutines are launched, the main goroutine is past
\* wg.Wait() (where it reads errs and the destinations and appends to the
\* store) only when all four goroutines have completed.
C4_JoinBarrier ==
  (Launched /\ mainpc # "wait") => (AllDone /\ wg = 0)

C4_Witness ==
  /\ mainpc = "check"
  /\ AllDone
  /\ ferr["dates"] # Nil
  /\ ferr["artists"] = Nil

\* C5: when the root fetch fails, gatherData returns that error as its next
\* step, no goroutine is launched and the store stays empty.
C5_RootFailFast ==
  /\ rootErr # Nil =>
       /\ ~Launched
       /\ wg = 0
       /\ artistData = <<>>
       /\ mainpc \in {"root_fetched", "gather_ret"}
       /\ (mainpc = "gather_ret" => ret = rootErr)
  /\ ret = RootError =>
       /\ ~Launched
       /\ artistData = <<>>
       /\ mainpc \in {"gather_ret", "exited"}

C5_Witness == mainpc = "exited" /\ ret = RootError /\ ~Launched

\* C6: when the four fetched collections do not all have the same length,
\* gatherData returns an error, the store is never populated and no index
\* expression is out of range.
C6_MisalignedFailsClosed ==
  (AllFetched /\ Cardinality(Lengths) > 1) =>
    /\ artistData = <<>>
    /\ mainpc # "panicked"
    /\ (mainpc = "gather_ret" => ret # Nil)

\* C7: when all four fetches succeeded with collections of one length N,
\* gatherData returns with exactly N records in the store, record i built
\* from artists[i], locations.Index[i], dates.Index[i], relation.Index[i].
C7_JoinPositional ==
  (mainpc = "gather_ret" /\ AllFetched /\ Cardinality(Lengths) = 1) =>
    /\ ret = Nil
    /\ Len(artistData) = Len(artists)
    /\ \A i \in 1..Len(artists) :
         /\ artistData[i].Id = artists[i].ID
         /\ artistData[i].Name = artists[i].Name
         /\ artistData[i].Image = artists[i].Image
         /\ artistData[i].Members = artists[i].Members
         /\ artistData[i].CreationDate = artists[i].CreationDate
         /\ artistData[i].FirstAlbum = artists[i].FirstAlbum
         /\ artistData[i].Locations = locations.Index[i].Locations
         /\ artistData[i].Dates = dates.Index[i].Dates
         /\ artistData[i].Relation = relation.Index[i].DatesLocations

C7_Witness ==
  /\ mainpc = "gather_ret"
  /\ AllFetched
  /\ Cardinality(Lengths) = 1
  /\ Len(artistData) >= 2

\* The id strings that denote the integer k: its decimal form, optionally
\* with a plus sign or a leading zero.
Denoting(k) == {Itoa(k), <<"+">> \o Itoa(k), <<"0">> \o Itoa(k)}

\* C8: a GET of /Artist whose id denotes k with 1 <= k <= N hands the record
\* at position k to the artist template; every other id is answered with
\* 400 Invalid Artist ID and no record.
C8_LookupByID ==
  (resp.handler = "singleArtistHandler" /\ resp.method = "GET") =>
    IF \E k \in 1..Len(artistData) : resp.arg \in Denoting(k)
      THEN /\ resp.tmpl = "artist.html"
           /\ resp.status \in {200, 500}
           /\ \A k \in 1..Len(artistData) :
                resp.arg \in Denoting(k) => resp.data = <<artistData[k]>>
      ELSE /\ resp.status = 400
           /\ resp.body = "400 ! Invalid Artist ID"
           /\ resp.data = <<>>

C8_Witness ==
  /\ resp.handler = "singleArtistHandler"
  /\ resp.method = "GET"
  /\ resp.arg = <<"3">>
  /\ Len(artistData) = 3
  /\ resp.status = 200
  /\ resp.data = <<artistData[3]>>

C10_StartupOrdering ==
  [][/\ resp' # resp => (mainpc = "serving" /\ ret = Nil)
     /\ (mainpc = "gather_ret" /\ (ret # Nil \/ Cardinality(Lengths) > 1))
          => mainpc' = "exited"]_vars

\* gatherData has returned to init (or the process has ended after it).
GatherReturned == mainpc \in {"gather_ret", "main", "serving", "exited"}

\* C11: once gatherData has returned, no step changes the store: every
\* request handler leaves its length and every record as they were.
C11_StoreWriteOnce ==
  [][GatherReturned => artistData' = artistData]_vars

C11_Witness ==
  /\ mainpc = "serving"
  /\ resp.handler = "searchHandler"
  /\ resp.data # <<>>
  /\ Len(artistData) >= 2

\* The tested fields of one record in the order name, members, locations,
\* first album, creation year, each with the text that is matched.
TestedFields(r) ==
  <<[Type |-> "artist", Value |-> r.Name, ID |-> r.Id, text |-> ToLower(r.Name)]>>
  \o [j \in 1..Len(r.Members) |->
        [Type |-> "member", Value |-> r.Members[j], ID |-> r.Id,
         text |-> ToLower(r.Members[j])]]
  \o [j \in 1..Len(r.Locations) |->
        [Type |-> "location", Value |-> r.Locations[j], ID |-> r.Id,
         text |-> ToLower(r.Locations[j])]]
  \o <<[Type |-> "first album", Value |-> r.FirstAlbum, ID |-> r.Id,
        text |-> ToLower(r.FirstAlbum)]>>
  \o <<[Type |-> "creation date", Value |-> Itoa(r.CreationDate), ID |-> r.Id,
        text |-> Itoa(r.CreationDate)]>>

\* The tested fields of the first n records of the store, in store order.
RECURSIVE StoreFields(_)
StoreFields(n) ==
  IF n = 0 THEN <<>> ELSE StoreFields(n - 1) \o TestedFields(artistData[n])

FieldMatches(f) == Contains(f.text, ToLower(resp.arg))

\* C12: the hits of a search are the tested fields containing the lowercased
\* query, one hit per such field, none removed, in store order and within a
\* record in the order name, members, locations, first album, creation year.
C12_SearchOrder ==
  resp.handler = "searchHandler" =>
    LET hits == SelectSeq(StoreFields(Len(artistData)), FieldMatches)
    IN /\ Len(resp.data) = Len(hits)
       /\ \A i \in 1..Len(hits) :
            /\ resp.data[i].Type = hits[i].Type
            /\ resp.data[i].Value = hits[i].Value
            /\ resp.data[i].ID = hits[i].ID

C12_Witness ==
  /\ resp.handler = "searchHandler"
  /\ resp.arg = <<"q">>
  /\ Len(artistData) >= 2
  /\ \E i \in 1..(Len(resp.data) - 1) :
       /\ resp.data[i].Type = "member"
       /\ resp.data[i + 1].Type = "location"
       /\ resp.data[i].ID = resp.data[i + 1].ID

\* 1 name + members + locations + 1 first album + 1 creation year, summed
\* over the first n records of the store.
RECURSIVE TestedFieldCount(_)
TestedFieldCount(n) ==
  IF n = 0 THEN 0
  ELSE TestedFieldCount(n - 1)
         + 1 + Len(artistData[n].Members) + Len(artistData[n].Locations) + 1 + 1

\* C13: a search with the empty query returns as many hits as the store has
\* tested fields.
C13_EmptyQueryMatchesAll ==
  (resp.handler = "searchHandler" /\ resp.arg = <<>>) =>
    Len(resp.data) = TestedFieldCount(Len(artistData))

C13_Witness ==
  /\ resp.handler = "searchHandler"
  /\ resp.arg = <<>>
  /\ Len(artistData) = 2
  /\ Len(resp.data) >= 10

\* Two characters that are equal or the two cases of one letter.
SameLetter(a, b) ==
  \/ a = b
  \/ \E i \in 1..26 : {a, b} = {UpperLetters[i], LowerLetters[i]}

\* Two queries that differ at most in letter case.
SameUpToCase(p, q) ==
  /\ Len(p) = Len(q)
  /\ \A i \in 1..Len(p) : SameLetter(p[i], q[i])

\* C14: a search returns the hit sequence that every query differing from it
\* only in letter case returns on the same store.
C14_SearchCaseInsensitive ==
  resp.handler = "searchHandler" =>
    \A q \in Queries :
      SameUpToCase(q, resp.arg) => searchHandler(resp.method, q).data = resp.data

C14_Witness ==
  /\ resp.handler = "searchHandler"
  /\ resp.arg = <<"A", "Y">>
  /\ Len(resp.data) >= 2

RouteHandlers == {"indexHandler", "singleArtistHandler", "aboutHandler", "searchHandler"}

\* C15: a request whose method is not GET, on any of the routes /, /Artist,
\* /about and /search, is answered with 405 and nothing read from the store.
C15_NonGetIs405 ==
  (resp.handler \in RouteHandlers /\ resp.method # "GET") =>
    /\ resp.status = 405
    /\ resp.tmpl = ""
    /\ resp.data = <<>>

\* C16: a GET that reaches the root handler with a path other than "/" is
\* answered with status 404 and never with the artist listing.
C16_UnknownPathIs404 ==
  (resp.handler = "indexHandler" /\ resp.method = "GET" /\ resp.arg # <<>>) =>
    /\ resp.status = 404
    /\ resp.tmpl # "index.html"
    /\ resp.data = <<>>

\* The fetchData call of every launched goroutine has returned.
FetchesCompleted == Launched /\ \A s \in SourceSet : fpc[s] # "fetch"

\* C17: a goroutine that is fetching keeps fetching until its own fetchData
\* returns, whatever the other goroutines do; gatherData has returned only
\* when every fetch has completed; and once every fetch has completed,
\* gatherData eventually returns.
C17_NoCancellationCompletion ==
  /\ [][\A s \in SourceSet :
          (fpc[s] = "fetch" /\ fpc'[s] # "fetch") =>
            /\ fpc'[s] \in {"done", "append"}
            /\ \A t \in SourceSet \ {s} : fpc'[t] = fpc[t]]_vars
  /\ []((Launched /\ GatherReturned) => AllDone)
  /\ (FetchesCompleted ~> GatherReturned)

\* The destination of the fetch of source s.
DestOf(s) ==
  CASE s = "artists" -> artists
    [] s = "locations" -> locations
    [] s = "dates" -> dates
    [] s = "relation" -> relation

\* The manifest's URL for the sub-resource s.
ManifestURL(s) ==
  CASE s = "artists" -> Manifest.Artists
    [] s = "locations" -> Manifest.Locations
    [] s = "dates" -> Manifest.Dates
    [] s = "relation" -> Manifest.Relation

\* C18: after a successful root fetch the four goroutines are launched
\* together, one per URL of the manifest; the step in which a goroutine's
\* fetch returns writes its own destination (from its own URL) and its own
\* err and nothing of another goroutine, and its later steps write, of the
\* data, only errs. (The WaitGroup counter is the barrier itself.)
C18_OwnDestinationOnly ==
  [][/\ (Launched' /\ ~Launched) =>
          /\ rootErr = Nil
          /\ data = Manifest
          /\ Cardinality({s \in SourceSet : fpc'[s] = "fetch"}) = 4
          /\ wg' = 4
     /\ \A s \in SourceSet :
          (fpc[s] = "fetch" /\ fpc'[s] # "fetch") =>
            /\ \A t \in SourceSet \ {s} :
                 /\ DestOf(t)' = DestOf(t)
                 /\ ferr'[t] = ferr[t]
                 /\ snap'[t] = snap[t]
            /\ errs' = errs
            /\ artistData' = artistData
            /\ IF ferr'[s] = Nil
                 THEN DestOf(s)' \in Payloads(ManifestURL(s))
                 ELSE /\ ferr'[s] = <<"FetchFailed", ManifestURL(s)>>
                      /\ DestOf(s)' = DestOf(s)
     /\ \A s \in SourceSet :
          (fpc[s] \in {"append", "store"} /\ fpc'[s] # fpc[s]) =>
            /\ \A t \in SourceSet : DestOf(t)' = DestOf(t)
            /\ \A t \in SourceSet \ {s} : ferr'[t] = ferr[t] /\ snap'[t] = snap[t]
            /\ artistData' = artistData]_vars

C18_Witness ==
  /\ AllDone
  /\ FailedSources = {"locations"}
  /\ Len(artists) >= 1
  /\ Len(dates.Index) >= 2
  /\ Len(relation.Index) >= 1
  /\ errs = <<ferr["locations"]>>

\* The hit h names a field of the record r and carries that field's value.
HitOfRecord(h, r) ==
  /\ h.ID = r.Id
  /\ \/ h.Type = "artist" /\ h.Value = r.Name
     \/ h.Type = "member" /\ \E j \in 1..Len(r.Members) : h.Value = r.Members[j]
     \/ h.Type = "location" /\ \E j \in 1..Len(r.Locations) : h.Value = r.Locations[j]
     \/ h.Type = "first album" /\ h.Value = r.FirstAlbum
     \/ h.Type = "creation date" /\ h.Value = Itoa(r.CreationDate)

\* C19: every hit of a search carries the id of a record of the store, the
\* kind of one of its tested fields and that field's stored value as it is
\* stored; a search over the empty store has no hits.
C19_HitsReferToRecords ==
  resp.handler = "searchHandler" =>
    /\ \A i \in 1..Len(resp.data) :
         \E k \in 1..Len(artistData) : HitOfRecord(resp.data[i], artistData[k])
    /\ artistData = <<>> => resp.data = <<>>

C19_Witness ==
  /\ resp.handler = "searchHandler"
  /\ resp.arg = <<"q">>
  /\ \E i \in 1..Len(resp.data) :
       resp.data[i].Type = "artist" /\ resp.data[i].Value = <<"Q", "u">>

====
